---- MODULE Spec2Model ----
(***************************************************************************)
(* A model of solathon's AsyncClient (src/solathon/async_client.py): the   *)
(* constructor's endpoint check, the per-method wrappers that build a      *)
(* JSON-RPC envelope and await the transport's send, send_transaction, and *)
(* refresh_http.                                                           *)
(*                                                                         *)
(* Every coroutine is cut at its await: one action runs the code from the  *)
(* call to the first await (asyncio runs it without interruption), and     *)
(* Resume runs the continuation once the transport has answered.           *)
(***************************************************************************)
EXTENDS Integers, Sequences, FiniteSets

VARIABLES
    client,   \* the AsyncClient object (endpoint, http), or NoClient
    ctor,     \* the last constructor call: its arguments and how it ended
    pc,       \* per task: "idle", "awaiting" (suspended in send),
              \* "refreshing" (suspended in refresh), "done"
    call,     \* per task: the operation called and its arguments
    sent,     \* per task: the envelopes this call handed to the transport
    answer,   \* per task: what the transport answered to the awaited send
    outcome,  \* per task: how the call ended for its caller
    log,      \* per task: the steps of the call, in the order they ran
    txs,      \* the Transaction objects the callers pass in
    ref       \* history: one earlier call, remembered with its envelope
              \* and the number of calls sent since (0, 1, 2 or more)

vars == <<client, ctor, pc, call, sent, answer, outcome, log, txs, ref>>

---------------------------------------------------------------------------
(* Bounds *)

NumTasks == 2
MaxCalls == 3
MaxSlot == 1

Tasks == 1..NumTasks
\* The single caller of the sequential specifications: the first task.
MainTask == CHOOSE t \in Tasks : \A u \in Tasks : t <= u

---------------------------------------------------------------------------
(* Python values.  Every value carries its type, so that a conversion is  *)
(* visible: str(PublicKey("pkA")) is the str "pkA", not the PublicKey.     *)

None == [ty |-> "None"]
Absent == [ty |-> "absent"]
PyInt(n) == [ty |-> "int", n |-> n]
PyStr(s) == [ty |-> "str", s |-> s]
PubKey(k) == [ty |-> "PublicKey", key |-> k]
Dict(k, v) == [ty |-> "dict", k |-> k, val |-> v]

\* bool(v): None, 0 and "" are false, everything else is true.
Truthy(v) ==
    CASE v.ty = "None" -> FALSE
      [] v.ty = "int" -> v.n # 0
      [] v.ty = "str" -> v.s # ""
      [] OTHER -> TRUE

\* str(v) of a public key argument: a str is itself, a PublicKey becomes
\* its base58 text.
ToStr(v) == IF v.ty = "PublicKey" THEN PyStr(v.key) ELSE v

\* kwargs.get(name) and kwargs.get(name, default) on a keyword that may be
\* absent.
KwGet(v, default) == IF v = Absent THEN default ELSE v

---------------------------------------------------------------------------
(* Inputs *)

ENDPOINTS ==
    { "https://api.mainnet-beta.solana.com",
      "https://api.devnet.solana.com",
      "https://api.testnet.solana.com" }

Endpoints == ENDPOINTS \cup {"http://localhost:8899"}

PublicKeys == {PyStr("pkA"), PubKey("pkA")}
Slots == {PyInt(n) : n \in 0..MaxSlot}
EndSlots == {None} \cup Slots
Messages == {PyStr("msgA")}
Signatures == {PyStr("sigA")}
MintIds == {Absent, None, PyStr(""), PyStr("mintA")}
ProgramIds == {Absent, PyStr("progA")}
Encodings == {Absent, PyStr("base64")}
Transactions == {"tx1"}
Blockhashes == {None, PyStr("bhA"), PyStr("bhB")}
TransportErrors == {"ConnectError", "ReadTimeout"}

NoClient == [kind |-> "none"]
NoAttempt == [kind |-> "none"]
NoCall == [op |-> "none"]
NoRef == [kind |-> "none"]
NoOutcome == [kind |-> "none"]
NoAnswer == [kind |-> "none"]

---------------------------------------------------------------------------
(* The transport collaborator (core/http.py) and the transaction           *)
(* (transaction.py)                                                        *)

\* AsyncHTTPClient(endpoint)
AsyncHTTPClient(endpoint) == [endpoint |-> endpoint, request_id |-> 0]

\* http.build_data(method, params): the envelope, params copied verbatim.
build_data(http, method, params) ==
    [id |-> http.request_id + 1, jsonrpc |-> "2.0",
     method |-> method, params |-> params]

\* http.refresh(): the handles it may leave.  The session is renewed; the
\* request counter is kept, or starts again from 0.
refresh(http) == {http, [http EXCEPT !.request_id = 0]}

\* An envelope without its id.
StripId(data) ==
    [jsonrpc |-> data.jsonrpc, method |-> data.method, params |-> data.params]

\* A transaction: its recent_blockhash field, and the blockhash its
\* signature covers (None while unsigned).
NewTransaction == [recent_blockhash |-> None, signed |-> None]

\* transaction.sign()
sign(tx) == [tx EXCEPT !.signed = tx.recent_blockhash]

\* transaction.serialize()
serialize(name, tx) ==
    [ty |-> "serialized", tx |-> name,
     recent_blockhash |-> tx.recent_blockhash, signature |-> tx.signed]

---------------------------------------------------------------------------
(* Construction *)

\* Faulty variant of the rejection test: "or" in place of "and".
InvalidEndpoint_or(endpoint, local) == ~local \/ endpoint \notin ENDPOINTS

\* The constructor's rejection test.
InvalidEndpoint(endpoint, local) == ~local /\ endpoint \notin ENDPOINTS

\* self.http = AsyncHTTPClient(endpoint); self.endpoint = endpoint
NewClient(endpoint) ==
    [kind |-> "client", endpoint |-> endpoint, http |-> AsyncHTTPClient(endpoint)]

NoCallsYet ==
    /\ pc = [t \in Tasks |-> "idle"]
    /\ call = [t \in Tasks |-> NoCall]
    /\ sent = [t \in Tasks |-> <<>>]
    /\ answer = [t \in Tasks |-> NoAnswer]
    /\ outcome = [t \in Tasks |-> NoOutcome]
    /\ log = [t \in Tasks |-> <<>>]
    /\ txs = [x \in Transactions |-> NewTransaction]
    /\ ref = NoRef

\* The state after AsyncClient("https://api.devnet.solana.com").
Init ==
    /\ client = NewClient("https://api.devnet.solana.com")
    /\ ctor = [kind |-> "constructed", exc |-> "",
               endpoint |-> "https://api.devnet.solana.com", local |-> FALSE]
    /\ NoCallsYet

\* The state before any client is constructed.
InitNew ==
    /\ client = NoClient
    /\ ctor = NoAttempt
    /\ NoCallsYet

\* AsyncClient(endpoint, local)
AsyncClient(endpoint, local) ==
    /\ client = NoClient
    /\ IF InvalidEndpoint(endpoint, local)
       THEN /\ ctor' = [kind |-> "raised", exc |-> "ValueError",
                        endpoint |-> endpoint, local |-> local]
            /\ client' = client
       ELSE /\ ctor' = [kind |-> "constructed", exc |-> "",
                        endpoint |-> endpoint, local |-> local]
            /\ client' = NewClient(endpoint)
    /\ UNCHANGED <<pc, call, sent, answer, outcome, log, txs, ref>>

---------------------------------------------------------------------------
(* The wrappers *)

\* A call may start on an idle task of a constructed client.
CanCall(t) ==
    /\ client # NoClient
    /\ pc[t] = "idle"
    /\ client.http.request_id < MaxCalls

\* data = self.http.build_data(method, params); await self.http.send(data):
\* the envelope is built, handed to the transport, and the task suspends.
Dispatch(t, c, method, params, events) ==
    LET data == build_data(client.http, method, params) IN
    /\ client' = [client EXCEPT !.http.request_id = @ + 1]
    /\ call' = [call EXCEPT ![t] = c]
    /\ sent' = [sent EXCEPT ![t] = Append(@, data)]
    /\ log' = [log EXCEPT ![t] = events \o <<"build_data", "send">>]
    /\ pc' = [pc EXCEPT ![t] = "awaiting"]
    /\ ref' = IF ref.kind = "ref" /\ ref.age < 2
              THEN [ref EXCEPT !.age = @ + 1] ELSE ref
    /\ UNCHANGED <<ctor, answer, outcome>>

\* A call that raises before any envelope is built.
Raise(t, c, exc) ==
    /\ call' = [call EXCEPT ![t] = c]
    /\ outcome' = [outcome EXCEPT ![t] = [kind |-> "raised", exc |-> exc]]
    /\ pc' = [pc EXCEPT ![t] = "done"]
    /\ UNCHANGED <<client, ctor, sent, answer, log, txs, ref>>

\* A wrapper whose params are a fixed list of its inputs.
Simple(t, op, method, args, params) ==
    /\ CanCall(t)
    /\ Dispatch(t, [op |-> op, args |-> args], method, params, <<>>)
    /\ UNCHANGED txs

get_account_info(t, public_key) ==
    Simple(t, "get_account_info", "getAccountInfo", <<public_key>>, <<public_key>>)

get_balance(t, public_key) ==
    Simple(t, "get_balance", "getBalance", <<public_key>>, <<public_key>>)

get_block(t, slot) ==
    Simple(t, "get_block", "getBlock", <<slot>>, <<slot>>)

get_block_height(t) ==
    Simple(t, "get_block_height", "getBlockHeight", <<>>, <<None>>)

get_block_production(t) ==
    Simple(t, "get_block_production", "getBlockProduction", <<>>, <<None>>)

get_block_commitment(t, block) ==
    Simple(t, "get_block_commitment", "getBlockCommitment", <<block>>, <<block>>)

\* Faulty variant of get_blocks' params: the end slot is appended on the
\* client's first request only, so the list depends on the requests made
\* before.
GetBlocksParams_counter(start_slot, end_slot) ==
    IF Truthy(end_slot) /\ client.http.request_id = 0
    THEN <<start_slot, end_slot>> ELSE <<start_slot>>

\* params = [start_slot]; if end_slot: params.append(end_slot)
GetBlocksParams(start_slot, end_slot) ==
    IF Truthy(end_slot) THEN <<start_slot, end_slot>> ELSE <<start_slot>>

get_blocks(t, start_slot, end_slot) ==
    Simple(t, "get_blocks", "getBlocks", <<start_slot, end_slot>>,
           GetBlocksParams(start_slot, end_slot))

get_blocks_with_limit(t, start_slot, limit) ==
    Simple(t, "get_blocks_with_limit", "getBlocksWithLimit",
           <<start_slot, limit>>, <<start_slot, limit>>)

get_block_time(t, block) ==
    Simple(t, "get_block_time", "getBlockTime", <<block>>, <<block>>)

get_cluster_nodes(t) ==
    Simple(t, "get_cluster_nodes", "getClusterNodes", <<>>, <<None>>)

get_epoch_info(t) ==
    Simple(t, "get_epoch_info", "getEpochInfo", <<>>, <<None>>)

get_epoch_schedule(t) ==
    Simple(t, "get_epoch_schedule", "getEpochSchedule", <<>>, <<None>>)

get_fee_for_message(t, message) ==
    Simple(t, "get_fee_for_message", "getFeeForMessage", <<message>>, <<message>>)

get_fees(t) ==
    Simple(t, "get_fees", "getFees", <<>>, <<None>>)

get_first_available_block(t) ==
    Simple(t, "get_first_available_block", "getFirstAvailableBlock", <<>>, <<None>>)

get_supply(t) ==
    Simple(t, "get_supply", "getSupply", <<>>, <<None>>)

get_identity(t) ==
    Simple(t, "get_identity", "getIdentity", <<>>, <<None>>)

get_transaction(t, signature) ==
    Simple(t, "get_transaction", "getTransaction", <<signature>>, <<signature>>)

get_recent_blockhash(t) ==
    Simple(t, "get_recent_blockhash", "getRecentBlockhash", <<>>, <<None>>)

\* Faulty variant of the identifier test: the second "not" is dropped.
MissingIdentifier_dropped_not(mint_id, program_id) ==
    mint_id = Absent /\ program_id # Absent

\* "mint_id" not in kwargs and "program_id" not in kwargs
MissingIdentifier(mint_id, program_id) ==
    mint_id = Absent /\ program_id = Absent

\* {"mint": mint_id} if mint_id else {"programId": program_id}
TokenFilter(mint_id, program_id) ==
    IF Truthy(KwGet(mint_id, None))
    THEN Dict("mint", KwGet(mint_id, None))
    ELSE Dict("programId", KwGet(program_id, None))

TokenAccountsParams(public_key, mint_id, program_id, encoding) ==
    << ToStr(public_key),
       TokenFilter(mint_id, program_id),
       Dict("encoding", KwGet(encoding, PyStr("jsonParsed"))) >>

\* The keywords are mint_id, program_id and encoding, each given or Absent.
get_token_accounts_by_owner(t, public_key, mint_id, program_id, encoding) ==
    LET c == [op |-> "get_token_accounts_by_owner",
              args |-> <<public_key, mint_id, program_id, encoding>>] IN
    /\ CanCall(t)
    /\ IF MissingIdentifier(mint_id, program_id)
       THEN Raise(t, c, "ValueError")
       ELSE /\ Dispatch(t, c, "getTokenAccountsByOwner",
                        TokenAccountsParams(public_key, mint_id, program_id, encoding),
                        <<>>)
            /\ UNCHANGED txs

\* Faulty variant of request_airdrop: the two params are swapped.
request_airdrop_swapped(t, public_key, lamports) ==
    Simple(t, "request_airdrop", "requestAirdrop",
           <<public_key, lamports>>, <<lamports, public_key>>)

request_airdrop(t, public_key, lamports) ==
    Simple(t, "request_airdrop", "requestAirdrop",
           <<public_key, lamports>>, <<public_key, lamports>>)

\* Faulty variant of send_transaction: the transaction is signed before the
\* blockhash is assigned to it.
send_transaction_sign_first(t, transaction, recent_blockhash) ==
    LET c == [op |-> "send_transaction",
              args |-> <<PyStr(transaction), recent_blockhash>>]
        signed == sign(txs[transaction])
        assigned == [signed EXCEPT !.recent_blockhash = recent_blockhash]
    IN
    /\ CanCall(t)
    /\ IF recent_blockhash = None
       THEN Raise(t, c, "TypeError")
       ELSE /\ txs' = [txs EXCEPT ![transaction] = assigned]
            /\ Dispatch(t, c, "sendTransaction",
                        << serialize(transaction, assigned),
                           Dict("encoding", PyStr("base64")) >>,
                        <<"sign", "assign", "serialize">>)

\* Faulty variant of send_transaction: the task is suspended once more,
\* between the assignment of the blockhash and the signing.
send_transaction_suspending(t, transaction, recent_blockhash) ==
    LET c == [op |-> "send_transaction",
              args |-> <<PyStr(transaction), recent_blockhash>>]
        signed == sign(txs[transaction])
    IN
    IF pc[t] = "assigned"
    THEN /\ call[t] = c
         /\ txs' = [txs EXCEPT ![transaction] = signed]
         /\ Dispatch(t, c, "sendTransaction",
                     << serialize(transaction, signed),
                        Dict("encoding", PyStr("base64")) >>,
                     <<"assign", "sign", "serialize">>)
    ELSE /\ CanCall(t)
         /\ IF recent_blockhash = None
            THEN Raise(t, c, "TypeError")
            ELSE /\ txs' = [txs EXCEPT ![transaction].recent_blockhash =
                                                           recent_blockhash]
                 /\ call' = [call EXCEPT ![t] = c]
                 /\ pc' = [pc EXCEPT ![t] = "assigned"]
                 /\ UNCHANGED <<client, ctor, sent, answer, outcome, log, ref>>

\* With no blockhash given, blockhash_resp is the coroutine object that the
\* un-awaited get_recent_blockhash() returns; subscripting it raises
\* TypeError before anything is built or sent.
send_transaction(t, transaction, recent_blockhash) ==
    LET c == [op |-> "send_transaction",
              args |-> <<PyStr(transaction), recent_blockhash>>]
        assigned == [txs[transaction] EXCEPT !.recent_blockhash = recent_blockhash]
        signed == sign(assigned)
    IN
    /\ CanCall(t)
    /\ IF recent_blockhash = None
       THEN Raise(t, c, "TypeError")
       ELSE /\ txs' = [txs EXCEPT ![transaction] = signed]
            /\ Dispatch(t, c, "sendTransaction",
                        << serialize(transaction, signed),
                           Dict("encoding", PyStr("base64")) >>,
                        <<"assign", "sign", "serialize">>)

\* await self.http.refresh(), up to the suspension: no envelope is built and
\* nothing is handed to the transport's send.
refresh_http(t) ==
    /\ client # NoClient
    /\ pc[t] = "idle"
    /\ call' = [call EXCEPT ![t] = [op |-> "refresh_http", args |-> <<>>]]
    /\ log' = [log EXCEPT ![t] = <<"refresh">>]
    /\ pc' = [pc EXCEPT ![t] = "refreshing"]
    /\ UNCHANGED <<client, ctor, sent, answer, outcome, txs, ref>>

\* The continuation of refresh_http: the transport's refresh has ended, by
\* returning or by raising, and refresh_http ends the same way.
refresh_http_done(t) ==
    /\ pc[t] = "refreshing"
    /\ \E h \in refresh(client.http) : client' = [client EXCEPT !.http = h]
    /\ \/ /\ answer' = [answer EXCEPT ![t] = [kind |-> "response", exc |-> ""]]
          /\ outcome' = [outcome EXCEPT ![t] = [kind |-> "returned", exc |-> ""]]
       \/ \E e \in TransportErrors :
            /\ answer' = [answer EXCEPT ![t] = [kind |-> "error", exc |-> e]]
            /\ outcome' = [outcome EXCEPT ![t] = [kind |-> "raised", exc |-> e]]
    /\ pc' = [pc EXCEPT ![t] = "done"]
    /\ UNCHANGED <<ctor, call, sent, log, txs, ref>>

\* Faulty variant of the continuation: a failed send is tried once more.
Resume_retry(t) ==
    /\ pc[t] = "awaiting"
    /\ \/ /\ answer' = [answer EXCEPT ![t] = [kind |-> "response", exc |-> ""]]
          /\ outcome' = [outcome EXCEPT ![t] = [kind |-> "returned", exc |-> ""]]
          /\ pc' = [pc EXCEPT ![t] = "done"]
          /\ sent' = sent
       \/ \E e \in TransportErrors :
            /\ answer' = [answer EXCEPT ![t] = [kind |-> "error", exc |-> e]]
            /\ IF Len(sent[t]) < 2
               THEN /\ sent' = [sent EXCEPT ![t] = Append(@, @[Len(@)])]
                    /\ pc' = pc
                    /\ outcome' = outcome
               ELSE /\ sent' = sent
                    /\ pc' = [pc EXCEPT ![t] = "done"]
                    /\ outcome' = [outcome EXCEPT ![t] =
                                      [kind |-> "raised", exc |-> e]]
    /\ UNCHANGED <<client, ctor, call, log, txs, ref>>

\* res = await self.http.send(data); return res.  The transport answers with
\* a response, which is returned as it is, or raises, and nothing catches the
\* error on its way to the caller.
Resume(t) ==
    /\ pc[t] = "awaiting"
    /\ \/ /\ answer' = [answer EXCEPT ![t] = [kind |-> "response", exc |-> ""]]
          /\ outcome' = [outcome EXCEPT ![t] = [kind |-> "returned", exc |-> ""]]
       \/ \E e \in TransportErrors :
            /\ answer' = [answer EXCEPT ![t] = [kind |-> "error", exc |-> e]]
            /\ outcome' = [outcome EXCEPT ![t] = [kind |-> "raised", exc |-> e]]
    /\ pc' = [pc EXCEPT ![t] = "done"]
    /\ UNCHANGED <<client, ctor, call, sent, log, txs, ref>>

\* History: the call that task t has in flight is remembered, with the
\* envelope it handed to the transport.  Nothing of the program changes.
Remember(t) ==
    /\ pc[t] = "awaiting"
    /\ ref' = [kind |-> "ref", call |-> call[t], age |-> 0,
               env |-> StripId(sent[t][Len(sent[t])])]
    /\ UNCHANGED <<client, ctor, pc, call, sent, answer, outcome, log, txs>>

\* The caller has the result; the task is free for the next call.
Return(t) ==
    /\ pc[t] = "done"
    /\ pc' = [pc EXCEPT ![t] = "idle"]
    /\ call' = [call EXCEPT ![t] = NoCall]
    /\ sent' = [sent EXCEPT ![t] = <<>>]
    /\ answer' = [answer EXCEPT ![t] = NoAnswer]
    /\ outcome' = [outcome EXCEPT ![t] = NoOutcome]
    /\ log' = [log EXCEPT ![t] = <<>>]
    /\ UNCHANGED <<client, ctor, txs, ref>>

---------------------------------------------------------------------------
(* Specifications *)

Construct == \E e \in Endpoints, l \in BOOLEAN : AsyncClient(e, l)

ParameterlessOperation(t) ==
    \/ get_block_height(t)
    \/ get_block_production(t)
    \/ get_cluster_nodes(t)
    \/ get_epoch_info(t)
    \/ get_epoch_schedule(t)
    \/ get_fees(t)
    \/ get_first_available_block(t)
    \/ get_supply(t)
    \/ get_identity(t)
    \/ get_recent_blockhash(t)

Operation(t) ==
    \/ ParameterlessOperation(t)
    \/ \E k \in PublicKeys : get_account_info(t, k)
    \/ \E k \in PublicKeys : get_balance(t, k)
    \/ \E s \in Slots : get_block(t, s)
    \/ \E s \in Slots : get_block_commitment(t, s)
    \/ \E s \in Slots, e \in EndSlots : get_blocks(t, s, e)
    \/ \E s \in Slots, l \in Slots : get_blocks_with_limit(t, s, l)
    \/ \E s \in Slots : get_block_time(t, s)
    \/ \E m \in Messages : get_fee_for_message(t, m)
    \/ \E s \in Signatures : get_transaction(t, s)
    \/ \E k \in PublicKeys, m \in MintIds, p \in ProgramIds, e \in Encodings :
         get_token_accounts_by_owner(t, k, m, p, e)
    \/ \E k \in PublicKeys, l \in Slots : request_airdrop(t, k, l)
    \/ \E x \in Transactions, b \in Blockhashes : send_transaction(t, x, b)

\* One caller of a constructed client that awaits each call before making
\* the next.
Next ==
    \/ Operation(MainTask)
    \/ refresh_http(MainTask)
    \/ refresh_http_done(MainTask)
    \/ Resume(MainTask)
    \/ Return(MainTask)
    \/ Remember(MainTask)

Spec == Init /\ [][Next]_vars

\* Several tasks submitting transactions through one client at once, and
\* refreshing its transport handle.
NextConcurrent ==
    \/ \E t \in Tasks, x \in Transactions, b \in Blockhashes :
         send_transaction(t, x, b)
    \/ \E t \in Tasks : refresh_http(t)
    \/ \E t \in Tasks : refresh_http_done(t)
    \/ \E t \in Tasks : Resume(t)
    \/ \E t \in Tasks : Return(t)

SpecConcurrent == Init /\ [][NextConcurrent]_vars

\* Construction, failed or not, and the first calls on the new client.
NextNew ==
    \/ Construct
    \/ ParameterlessOperation(MainTask)
    \/ refresh_http(MainTask)
    \/ refresh_http_done(MainTask)
    \/ Resume(MainTask)
    \/ Return(MainTask)

SpecNew == InitNew /\ [][NextNew]_vars

---------------------------------------------------------------------------
(* Properties *)

\* The call of task t has handed an envelope to the transport.
Submitted(t) == call[t].op # "none" /\ sent[t] # <<>>

\* The last envelope the call of task t handed to the transport.
Data(t) == sent[t][Len(sent[t])]

IsTokenCall(t) == call[t].op = "get_token_accounts_by_owner"
IsSendTransaction(t) == call[t].op = "send_transaction"

\* The three canonical cluster URLs (mainnet-beta, devnet, testnet).
CanonicalURLs ==
    { "https://api.mainnet-beta.solana.com",
      "https://api.devnet.solana.com",
      "https://api.testnet.solana.com" }

\* C1: a constructor call with an endpoint outside the three canonical URLs
\* and local = false ends with the configuration error (the code's
\* ValueError) and leaves no client; with local = true, or with a canonical
\* endpoint and either value of local, it yields a client for that endpoint.
C1_EndpointCheck ==
    ctor.kind # "none" =>
        IF ctor.endpoint \notin CanonicalURLs /\ ~ctor.local
        THEN ctor.kind = "raised" /\ ctor.exc = "ValueError" /\ client = NoClient
        ELSE /\ ctor.kind = "constructed"
             /\ client # NoClient
             /\ client.endpoint = ctor.endpoint
             /\ client.http.endpoint = ctor.endpoint

\* C1 witness: a non-canonical endpoint was refused without local.
C1_Witness ==
    /\ ctor.kind = "raised"
    /\ ctor.endpoint = "http://localhost:8899"
    /\ ~ctor.local
    /\ client = NoClient

\* C2: a finished send_transaction call that was given no blockhash has
\* first sent a getRecentBlockhash request and then the sendTransaction
\* request, whose transaction carries a fetched blockhash; a call that was
\* given a blockhash has sent no getRecentBlockhash request.
C2_FetchBeforeSubmit ==
    \A t \in Tasks :
        (IsSendTransaction(t) /\ pc[t] = "done") =>
            IF call[t].args[2] = None
            THEN /\ Len(sent[t]) >= 1
                 /\ sent[t][1].method = "getRecentBlockhash"
                 /\ Len(sent[t]) >= 2 =>
                      /\ sent[t][2].method = "sendTransaction"
                      /\ sent[t][2].params[1].recent_blockhash # None
            ELSE \A i \in 1..Len(sent[t]) : sent[t][i].method # "getRecentBlockhash"

\* C3: a get_token_accounts_by_owner call given neither mint_id nor
\* program_id has failed with the invalid-argument error (the code's
\* ValueError) and has sent nothing, whatever its public key and encoding.
C3_NeitherIdentifierFails ==
    \A t \in Tasks :
        (IsTokenCall(t) /\ call[t].args[2] = Absent /\ call[t].args[3] = Absent) =>
            /\ pc[t] = "done"
            /\ outcome[t] = [kind |-> "raised", exc |-> "ValueError"]
            /\ sent[t] = <<>>

\* C3 witness: such a call, made with a PublicKey object and an explicit
\* encoding, has failed.
C3_Witness ==
    \E t \in Tasks :
        /\ IsTokenCall(t)
        /\ call[t].args = <<PubKey("pkA"), Absent, Absent, PyStr("base64")>>
        /\ outcome[t].kind = "raised"

\* C4: a get_token_accounts_by_owner call given a mint_id or a program_id
\* is not refused, and its params hold, after the key, one filter that is
\* {"mint": the mint_id given} or {"programId": the program_id given}, and
\* then {"encoding": e}, e being "jsonParsed" unless an encoding was given.
C4_FilterCarriesSupplied ==
    \A t \in Tasks :
        (IsTokenCall(t) /\ (call[t].args[2] # Absent \/ call[t].args[3] # Absent)) =>
            /\ Submitted(t)
            /\ Len(Data(t).params) = 3
            /\ \/ /\ call[t].args[2] # Absent
                  /\ Data(t).params[2] = Dict("mint", call[t].args[2])
               \/ /\ call[t].args[3] # Absent
                  /\ Data(t).params[2] = Dict("programId", call[t].args[3])
            /\ Data(t).params[3] =
                 Dict("encoding", IF call[t].args[4] = Absent
                                  THEN PyStr("jsonParsed") ELSE call[t].args[4])

\* C5: get_blocks(start_slot, end_slot) sends params [start_slot] when
\* end_slot is None and [start_slot, end_slot] for every integer end_slot.
C5_GetBlocksParams ==
    \A t \in Tasks :
        (call[t].op = "get_blocks" /\ Submitted(t)) =>
            Data(t).params =
                IF call[t].args[2] = None
                THEN <<call[t].args[1]>>
                ELSE <<call[t].args[1], call[t].args[2]>>

\* The fixed RPC method name of each operation.
MethodOf(op) ==
    CASE op = "get_account_info" -> "getAccountInfo"
      [] op = "get_balance" -> "getBalance"
      [] op = "get_block" -> "getBlock"
      [] op = "get_block_height" -> "getBlockHeight"
      [] op = "get_block_production" -> "getBlockProduction"
      [] op = "get_block_commitment" -> "getBlockCommitment"
      [] op = "get_blocks" -> "getBlocks"
      [] op = "get_blocks_with_limit" -> "getBlocksWithLimit"
      [] op = "get_block_time" -> "getBlockTime"
      [] op = "get_cluster_nodes" -> "getClusterNodes"
      [] op = "get_epoch_info" -> "getEpochInfo"
      [] op = "get_epoch_schedule" -> "getEpochSchedule"
      [] op = "get_fee_for_message" -> "getFeeForMessage"
      [] op = "get_fees" -> "getFees"
      [] op = "get_first_available_block" -> "getFirstAvailableBlock"
      [] op = "get_supply" -> "getSupply"
      [] op = "get_identity" -> "getIdentity"
      [] op = "get_transaction" -> "getTransaction"
      [] op = "get_recent_blockhash" -> "getRecentBlockhash"
      [] op = "get_token_accounts_by_owner" -> "getTokenAccountsByOwner"
      [] op = "request_airdrop" -> "requestAirdrop"
      [] op = "send_transaction" -> "sendTransaction"
      [] OTHER -> ""

\* The operations whose params are their positional inputs.
PositionalOps ==
    { "get_account_info", "get_balance", "get_block", "get_block_commitment",
      "get_blocks_with_limit", "get_block_time", "get_fee_for_message",
      "get_transaction", "request_airdrop" }

\* The operations that take no input.
ParameterlessOps ==
    { "get_block_height", "get_block_production", "get_cluster_nodes",
      "get_epoch_info", "get_epoch_schedule", "get_fees",
      "get_first_available_block", "get_supply", "get_identity",
      "get_recent_blockhash" }

\* Method name and version tag of every envelope, and the inputs of the
\* positional operations and of get_blocks in their order, as passed.
EnvelopeCommon(t) ==
    /\ Data(t).method = MethodOf(call[t].op)
    /\ Data(t).jsonrpc = "2.0"
    /\ call[t].op \in PositionalOps => Data(t).params = call[t].args
    /\ call[t].op = "get_blocks" =>
         /\ Len(Data(t).params) \in {1, 2}
         /\ \A i \in 1..Len(Data(t).params) : Data(t).params[i] = call[t].args[i]

\* C6 as stated: every envelope has its operation's method name and
\* jsonrpc "2.0", and every input that goes into params goes in its place
\* as it was passed, with no type coercion: for get_token_accounts_by_owner,
\* the public key.
C6_ParamsAreInputs ==
    \A t \in Tasks :
        Submitted(t) =>
            /\ EnvelopeCommon(t)
            /\ IsTokenCall(t) => Data(t).params[1] = call[t].args[1]

\* C6 as amended: every envelope has its operation's method name and
\* jsonrpc "2.0"; the positional operations and get_blocks put their inputs
\* in params in the call's order, as passed; the operations without input
\* send [None]; get_token_accounts_by_owner sends str(public_key), a str
\* also when it was given a PublicKey object.
C6_ParamsAmended ==
    \A t \in Tasks :
        Submitted(t) =>
            /\ EnvelopeCommon(t)
            /\ call[t].op \in ParameterlessOps => Data(t).params = <<None>>
            /\ IsTokenCall(t) =>
                 /\ Data(t).params[1].ty = "str"
                 /\ Data(t).params[1].s =
                      (IF call[t].args[1].ty = "PublicKey"
                       THEN call[t].args[1].key ELSE call[t].args[1].s)

\* C6 witness: get_token_accounts_by_owner was given a PublicKey object and
\* sent its string, followed by the filter and the encoding.
C6_Witness ==
    \E t \in Tasks :
        /\ IsTokenCall(t)
        /\ Submitted(t)
        /\ call[t].args[1] = PubKey("pkA")
        /\ Data(t).method = "getTokenAccountsByOwner"
        /\ Data(t).params = << PyStr("pkA"), Dict("mint", PyStr("mintA")),
                               Dict("encoding", PyStr("jsonParsed")) >>

\* A call of one of the RPC operations other than send_transaction
\* (refresh_http renews the transport handle and is no RPC operation).
IsSingleRequestCall(t) ==
    call[t].op \notin {"none", "send_transaction", "refresh_http"}

\* C7 as stated: a finished call of an operation other than
\* send_transaction has made exactly one transport send, and if the
\* transport raised, the caller got that very error.
C7_ExactlyOneSend ==
    \A t \in Tasks :
        (IsSingleRequestCall(t) /\ pc[t] = "done") =>
            /\ Len(sent[t]) = 1
            /\ answer[t].kind = "error" =>
                 outcome[t] = [kind |-> "raised", exc |-> answer[t].exc]

\* C7 as amended: a call of an operation other than send_transaction makes
\* at most one transport send; when it has finished it has made exactly
\* one, unless it is a get_token_accounts_by_owner call refused with
\* ValueError for its missing identifier, which has made none; and if the
\* transport raised, the caller got that very error and the call has still
\* made one send only.  A refresh_http call sends nothing, and hands an
\* error of the transport's refresh to its caller as it is.
C7_AtMostOneSend ==
    \A t \in Tasks :
        /\ IsSingleRequestCall(t) =>
            /\ Len(sent[t]) <= 1
            /\ pc[t] = "done" =>
                 /\ Len(sent[t]) = 0 <=>
                      /\ IsTokenCall(t)
                      /\ call[t].args[2] = Absent
                      /\ call[t].args[3] = Absent
                      /\ outcome[t] = [kind |-> "raised", exc |-> "ValueError"]
                 /\ Len(sent[t]) = 1 => answer[t].kind \in {"response", "error"}
                 /\ answer[t].kind = "error" =>
                      /\ outcome[t] = [kind |-> "raised", exc |-> answer[t].exc]
                      /\ Len(sent[t]) = 1
                 /\ answer[t].kind = "response" => outcome[t].kind = "returned"
        /\ call[t].op = "refresh_http" =>
            /\ sent[t] = <<>>
            /\ answer[t].kind = "error" =>
                 outcome[t] = [kind |-> "raised", exc |-> answer[t].exc]

\* C7 witness: a get_balance call has ended with the transport's error,
\* after one send.
C7_Witness ==
    \E t \in Tasks :
        /\ call[t].op = "get_balance"
        /\ pc[t] = "done"
        /\ answer[t] = [kind |-> "error", exc |-> "ReadTimeout"]
        /\ Len(sent[t]) = 1

\* C8: a call with the operation and inputs of an earlier call of this
\* client hands the transport the envelope the earlier call handed it, the
\* id apart, whatever calls were made in between.
C8_SameInputsSameEnvelope ==
    \A t \in Tasks :
        (ref.kind = "ref" /\ Submitted(t) /\ call[t] = ref.call) =>
            StripId(Data(t)) = ref.env

\* C8 witness: get_blocks was called again with the inputs of a remembered
\* call, another call having been sent in between.
C8_Witness ==
    \E t \in Tasks :
        /\ ref.kind = "ref"
        /\ Submitted(t)
        /\ call[t] = ref.call
        /\ call[t].op = "get_blocks"
        /\ ref.age = 2

\* C9: a send_transaction call that has reached submission has assigned
\* the blockhash, signed, serialized and sent, in this order, and its params
\* are the serialized transaction, which carries the blockhash given and a
\* signature made over it, and then {"encoding": "base64"}.
C9_SubmissionOrder ==
    \A t \in Tasks :
        (IsSendTransaction(t) /\ Submitted(t)) =>
            /\ log[t] = <<"assign", "sign", "serialize", "build_data", "send">>
            /\ Len(sent[t]) = 1
            /\ Data(t).params =
                 << [ty |-> "serialized", tx |-> call[t].args[1].s,
                     recent_blockhash |-> call[t].args[2],
                     signature |-> call[t].args[2]],
                    Dict("encoding", PyStr("base64")) >>

\* C9 witness: a transaction that an earlier call had left with another
\* blockhash was submitted.
C9_Witness ==
    \E t \in Tasks :
        /\ IsSendTransaction(t)
        /\ Submitted(t)
        /\ call[t].args[2] = PyStr("bhB")
        /\ ref.kind = "ref"
        /\ ref.age > 0
        /\ ref.call = [op |-> "send_transaction", args |-> <<PyStr("tx1"), PyStr("bhA")>>]

\* C10: a send_transaction call is suspended nowhere but in the transport's
\* send, and what it submits there is the transaction with the blockhash of
\* this very call, signed over that blockhash, whatever other calls on the
\* same transaction are in flight.
C10_OwnBlockhashSubmitted ==
    \A t \in Tasks :
        /\ IsSendTransaction(t) => pc[t] \in {"awaiting", "done"}
        /\ (IsSendTransaction(t) /\ pc[t] = "awaiting") =>
             /\ Data(t).params[1].tx = call[t].args[1].s
             /\ Data(t).params[1].recent_blockhash = call[t].args[2]
             /\ Data(t).params[1].signature = call[t].args[2]

\* C10 witness: two calls on the same transaction, with different
\* blockhashes, are suspended in the transport's send at the same time.
C10_Witness ==
    \E t, u \in Tasks :
        /\ t # u
        /\ pc[t] = "awaiting" /\ pc[u] = "awaiting"
        /\ IsSendTransaction(t) /\ IsSendTransaction(u)
        /\ call[t].args[1] = call[u].args[1]
        /\ call[t].args[2] = PyStr("bhA")
        /\ call[u].args[2] = PyStr("bhB")

====
